---- MODULE Spec2Model ----
(***************************************************************************)
(* Voice-lifecycle and liveness engine of the 53-TET keyboard.             *)
(*                                                                         *)
(* The repository holds two revisions of the component:                    *)
(*   "tsx" : src/src/FiftyThreeTETKeyboard.tsx                             *)
(*   "p0"  : src/unnamed/part_000  (two-keyboard revision)                 *)
(* Both are modelled; the variable impl says which one a behaviour runs.   *)
(* Definitions ending in _tsx / _p0 are translated from the respective     *)
(* file; definitions without a suffix are identical in both files.         *)
(*                                                                         *)
(* Frequencies are kept exactly, on a logarithmic grid: the integer u      *)
(* stands for D4_FREQ * 2^(u / 636); one 12-TET semitone is 53 units, one  *)
(* 53-TET step is 12 units, one octave is 636 units.                       *)
(* Times are integer milliseconds, gains integer hundredths.               *)
(***************************************************************************)
EXTENDS Integers, Sequences, FiniteSets, TLC

\* ------------------------------ bounds ------------------------------
MaxVoices == 2          \* Voices constructed in one behaviour
MaxGlow == 2            \* cap on one step's glow count
MaxStops == 2         \* calls of stop on one Voice (Voice-level specification)
MaxSemis == 1270      \* semitone offsets given to midiNameFromSemis: -MaxSemis..MaxSemis
MaxPoints == 6        \* points given to buildSmoothDecayCurve: 0..MaxPoints
MaxFreqStep == 55     \* steps given to freqForStepFromBase: -MaxFreqStep..MaxFreqStep
MaxUlps == 1          \* rounding error of one double result, in units of the last place

\* ------------------------------ input domains ------------------------------
PointerIds == {1, 2}
KeyIds == {"s"}
PointerSteps == {9, 31}
Steps == {9, 31}
CesniIds == {"rast_penta", "none"}
Transposes == {0, 7}

\* ------------------------------ program constants ------------------------------
STEPS == 53
D4_MIDI == 62
MIN_REL == 30
NoStep == -1            \* null step / no onended callback
NoHz == -100000         \* null activeHz
NoCurve == -1           \* the tsx Voice has no releaseCurve field
Ramping == -2           \* a gain.gain.value still on its way to the target
NoProbe == [fn |-> "none"]   \* no helper call under test

\* ------------------------------ Map helpers ------------------------------
Has(m, k) == k \in DOMAIN m
Get(m, k, d) == IF k \in DOMAIN m THEN m[k] ELSE d
Put(m, k, v) == [x \in DOMAIN m \cup {k} |-> IF x = k THEN v ELSE m[x]]
Del(m, k) == [x \in DOMAIN m \ {k} |-> m[x]]
EmptyMap == [x \in {} |-> 0]
Max(a, b) == IF a >= b THEN a ELSE b

\* ------------------------------ pure helpers ------------------------------
\* JavaScript's a % b: the remainder has the sign of the dividend
JsRem(a, b) == IF a >= 0 THEN a % b ELSE 0 - ((0 - a) % b)

NOTE_NAMES == <<"C", "C#", "D", "D#", "E", "F", "F#", "G", "G#", "A", "A#", "B">>
\* NOTE_NAMES[i] for a 0-based index; an index outside the array reads undefined
NoteNameAt(i) == IF i \in 0..11 THEN NOTE_NAMES[i + 1] ELSE "undefined"

\* tsx 24-30; Math.floor(midi / 12) is the floor division
midiNameFromSemis_tsx(semitonesFromD4) ==
  LET midi == D4_MIDI + semitonesFromD4
  IN [name |-> NoteNameAt(JsRem(JsRem(midi, 12) + 12, 12)),
      octave |-> (midi \div 12) - 1]

\* p0 37-39
midiNameFromSemis_p0(dSemis) ==
  [name |-> NoteNameAt(JsRem(D4_MIDI + dSemis + 1200, 12)),
   octave |-> ((D4_MIDI + dSemis) \div 12) - 1]

\* Amplitudes are counted in units of 1e-6, so 1e-6 is 1 and the default end
\* 1e-4 is 100; a sample is rounded down to the unit grid where the code rounds
\* it to the nearest Float32 (both roundings are monotone).
\* mutant of buildSmoothDecayCurve: the start is not clamped to the floor
buildSmoothDecayCurve_noClamp(start, end, points) ==
  LET n == Max(2, points)
      floor == Max(end, 1)
      s0 == start
  IN [j \in 1..n |->
        LET i == j - 1
            d == (n - 1) * (n - 1) * (n - 1)
            smoothNum == i * i * (3 * (n - 1) - 2 * i)
        IN floor + ((s0 - floor) * (d - smoothNum)) \div d]

\* tsx 87-99 = p0 100-112.  points | 0 is the identity on the 32-bit integers
\* used here; start || floor takes floor when start is 0; with t = i / (n - 1),
\* smooth = t * t * (3 - 2 * t) = smoothNum / d.
buildSmoothDecayCurve(start, end, points) ==
  LET n == Max(2, points)
      floor == Max(end, 1)
      s0 == Max(IF start = 0 THEN floor ELSE start, floor)
  IN [j \in 1..n |->
        LET i == j - 1
            d == (n - 1) * (n - 1) * (n - 1)
            smoothNum == i * i * (3 * (n - 1) - 2 * i)
        IN floor + ((s0 - floor) * (d - smoothNum)) \div d]

\* mutant of visualReleaseMs: the 90 ms floor is gone
visualReleaseMs_noFloor(rel) == Max(MIN_REL, rel) + 10

\* release times are counted in ms: Math.round((max(MIN_REL, rel) + 0.01) * 1000)
visualReleaseMs(rel) == Max(90, Max(MIN_REL, rel) + 10)

baseFreqFromSemitones(semis) == STEPS * semis

\* mutant of freqForStepFromBase: the step is taken for a 12-TET semitone
freqForStepFromBase_semitones(step, base) == base + STEPS * step

freqForStepFromBase(step, base) == base + 12 * step

\* one octave (a factor of 2) in the units of frequency
Octave == 12 * STEPS

CesniSteps(id) ==
  CASE id = "rast_penta" -> <<0, 9, 17, 22, 31>>
    [] id = "ussak_tetra" -> <<0, 8, 13, 22>>
    [] id = "none" -> <<>>

\* Array.indexOf: 0-based position of the first occurrence, -1 when absent
IndexOf(seq, x) ==
  IF \E i \in 1..Len(seq) : seq[i] = x
  THEN (CHOOSE i \in 1..Len(seq) : seq[i] = x /\ \A j \in 1..(i - 1) : seq[j] # x) - 1
  ELSE -1

\* String.prototype.toLowerCase on the key names the handlers are fed
toLowerCase(key) ==
  CASE key = "A" -> "a" [] key = "S" -> "s" [] key = "D" -> "d" [] key = "F" -> "f"
    [] key = "G" -> "g" [] key = "H" -> "h" [] key = "J" -> "j" [] key = "K" -> "k"
    [] key = "L" -> "l" [] OTHER -> key

orderKb1 == <<"a", "s", "d", "f", "g">>
orderKb2 == <<"h", "j", "k", "l", ";">>

\* mutant of resolveStepForKeyWithOrder: the key is looked up as typed
resolveStepForKeyWithOrder_caseSensitive(key, steps, order) ==
  LET idx == IndexOf(order, key)
  IN IF idx = -1 THEN NoStep
     ELSE IF idx >= Len(steps) THEN NoStep
     ELSE steps[idx + 1]

resolveStepForKeyWithOrder(key, steps, order) ==
  LET idx == IndexOf(order, toLowerCase(key))
  IN IF idx = -1 THEN NoStep
     ELSE IF idx >= Len(steps) THEN NoStep
     ELSE steps[idx + 1]

resolveStepForKey(key, steps) == resolveStepForKeyWithOrder(key, steps, orderKb1)

\* ------------------------------ Voice ------------------------------
\* owner is a history field: the input source whose handler constructed the
\* Voice.  oscStops counts calls of osc.stop; ended is set when the
\* oscillator's ended event has been delivered.
PointerSrc(p) == [kind |-> "pointer", p |-> p, k |-> "", step |-> NoStep]
KeySrc(k) == [kind |-> "key", p |-> 0, k |-> k, step |-> NoStep]
LatchSrc(s) == [kind |-> "latch", p |-> 0, k |-> "", step |-> s]

\* settled: the ramp of gain.gain towards gainTarget (the attack, or the
\* transition a setGain starts) has run to its end.  curveStart is the first
\* value of the curve the last stop handed to setValueCurveAtTime.
Voice_tsx(owner, type, frequency, gainTarget) ==
  [owner |-> owner, type |-> type, frequency |-> frequency, gainTarget |-> gainTarget,
   releaseCurve |-> NoCurve, stopped |-> FALSE, oscStops |-> 0,
   onended |-> NoStep, ended |-> FALSE, settled |-> FALSE, curveStart |-> NoCurve]

Voice_p0(owner, waveform, freq, gain) ==
  [owner |-> owner, type |-> waveform, frequency |-> freq, gainTarget |-> gain,
   releaseCurve |-> gain, stopped |-> FALSE, oscStops |-> 0,
   onended |-> NoStep, ended |-> FALSE, settled |-> FALSE, curveStart |-> NoCurve]

\* this.gain.gain.value of a Voice that has not been stopped
Amplitude(v) == IF v.settled THEN v.gainTarget ELSE Ramping

setFrequency(v, f) == [v EXCEPT !.frequency = f]

\* stop(release, onEnded): cb is the step captured by () => decGlow(step)
Voice_stop_tsx(v, cb) ==
  IF v.stopped THEN v
  ELSE [v EXCEPT !.stopped = TRUE, !.onended = cb, !.oscStops = @ + 1,
                 !.curveStart = Amplitude(v)]

Voice_stop_p0(v, cb) ==
  [v EXCEPT !.onended = cb, !.oscStops = @ + 1, !.curveStart = v.releaseCurve]

\* ------------------------------ state ------------------------------
VARIABLES
  impl,            \* "tsx" or "p0": which revision runs
  waveform, gain, release, sustain, transpose12, cesniId,   \* useState
  voices,          \* every Voice constructed so far, by construction order
  activePointers,  \* tsx: Set<pointerId>; p0: Map<pointerId, step>
  activeVoices,    \* Map<pointerId, {voice, step}>
  activeKeys,      \* Map<key, {voice, step}>
  latchedVoices,   \* Map<step, Voice>
  glowCounts,      \* Map<step, count>
  fadeInfo,        \* Map<step, {durationMs}>
  fadeTimers,      \* p0: pending setTimeout removals per step
  activeHz, activeStep,
  probe            \* the call of a module-level helper under test, and its result

params == <<waveform, gain, release, sustain, transpose12, cesniId>>
engine == <<voices, activePointers, activeVoices, activeKeys, latchedVoices,
            glowCounts, fadeInfo, fadeTimers, activeHz, activeStep>>
vars == <<impl, params, engine, probe>>

Waveforms == {"sine", "square"}
Gains == {15, 30}
Releases == {20, 450}

baseFreq == baseFreqFromSemitones(transpose12)
cesniSteps == CesniSteps(cesniId)
\* p0 keyboard 2: default rast_tetra, placed on the highest step of keyboard 1
cesni2RelSteps == <<0, 9, 17, 22>>
startStep2 == IF Len(cesniSteps) > 0 THEN cesniSteps[Len(cesniSteps)] ELSE 31

\* the component as mounted
Mounted ==
  /\ impl \in {"tsx", "p0"}
  /\ waveform = "sine"
  /\ gain = 15
  /\ release = IF impl = "tsx" THEN 450 ELSE 120
  /\ sustain = FALSE
  /\ transpose12 = 0
  /\ cesniId = "rast_penta"
  /\ voices = <<>>
  /\ activePointers = IF impl = "tsx" THEN {} ELSE EmptyMap
  /\ activeVoices = EmptyMap
  /\ activeKeys = EmptyMap
  /\ latchedVoices = EmptyMap
  /\ glowCounts = EmptyMap
  /\ fadeInfo = EmptyMap
  /\ fadeTimers = EmptyMap
  /\ activeHz = NoHz
  /\ activeStep = NoStep

Init ==
  /\ Mounted
  /\ probe = NoProbe

\* ------------------------------ liveness (glow) ------------------------------
Vis == [glowCounts |-> glowCounts, fadeInfo |-> fadeInfo, fadeTimers |-> fadeTimers]
SetVis(v) ==
  /\ glowCounts' = v.glowCounts
  /\ fadeInfo' = v.fadeInfo
  /\ fadeTimers' = v.fadeTimers

incGlow_tsx(vis, step) ==
  [vis EXCEPT !.glowCounts = Put(@, step, Get(@, step, 0) + 1),
              !.fadeInfo = Del(@, step)]

\* mutant of maybeBeginFade_tsx: the count <= 1 test is gone
maybeBeginFade_tsx_always(vis, step, rel) ==
  [vis EXCEPT !.fadeInfo = Put(@, step, [durationMs |-> visualReleaseMs(rel)])]

maybeBeginFade_tsx(vis, step, rel) ==
  LET count == Get(vis.glowCounts, step, 0)
  IN IF count <= 1
     THEN [vis EXCEPT !.fadeInfo = Put(@, step, [durationMs |-> visualReleaseMs(rel)])]
     ELSE vis

\* mutant of decGlow_tsx: a settle callback darkens the step outright instead
\* of taking one reference away
decGlow_tsx_clear(vis, step) ==
  [vis EXCEPT !.glowCounts = Del(@, step), !.fadeInfo = Del(@, step)]

\* mutant of decGlow_tsx: the entry is deleted before it is read, so the
\* decrement starts from 0 and is stored without the floor
decGlow_tsx_deleteFirst(vis, step) ==
  [vis EXCEPT !.glowCounts = Put(@, step, Get(Del(@, step), step, 0) - 1)]

\* mutant of decGlow_tsx: the last decrement forgets the fade record
decGlow_tsx_keepsFade(vis, step) ==
  LET next == Get(vis.glowCounts, step, 0) - 1
  IN IF next <= 0
     THEN [vis EXCEPT !.glowCounts = Del(@, step)]
     ELSE [vis EXCEPT !.glowCounts = Put(@, step, next)]

decGlow_tsx(vis, step) ==
  LET next == Get(vis.glowCounts, step, 0) - 1
  IN IF next <= 0
     THEN [vis EXCEPT !.glowCounts = Del(@, step), !.fadeInfo = Del(@, step)]
     ELSE [vis EXCEPT !.glowCounts = Put(@, step, next)]

incGlow_p0(vis, step) ==
  [vis EXCEPT !.glowCounts = Put(@, step, Get(@, step, 0) + 1)]

decGlow_p0(vis, step) ==
  LET v == Get(vis.glowCounts, step, 0) - 1
  IN IF v <= 0
     THEN [vis EXCEPT !.glowCounts = Del(@, step)]
     ELSE [vis EXCEPT !.glowCounts = Put(@, step, v)]

maybeBeginFade_p0(vis, step, rel) ==
  [vis EXCEPT !.fadeInfo = Put(@, step, [durationMs |-> visualReleaseMs(rel)]),
              !.fadeTimers = Put(@, step, Get(@, step, 0) + 1)]

\* the helper of the running revision
incGlow(vis, step) == IF impl = "tsx" THEN incGlow_tsx(vis, step) ELSE incGlow_p0(vis, step)
decGlow(vis, step) == IF impl = "tsx" THEN decGlow_tsx(vis, step) ELSE decGlow_p0(vis, step)
maybeBeginFade(vis, step, rel) ==
  IF impl = "tsx" THEN maybeBeginFade_tsx(vis, step, rel) ELSE maybeBeginFade_p0(vis, step, rel)
Voice_stop(v, cb) == IF impl = "tsx" THEN Voice_stop_tsx(v, cb) ELSE Voice_stop_p0(v, cb)
NewVoice(owner, f) ==
  IF impl = "tsx" THEN Voice_tsx(owner, waveform, f, gain) ELSE Voice_p0(owner, waveform, f, gain)

\* ------------------------------ start / retune / stop helpers ------------------------------
CanConstruct == Len(voices) < MaxVoices
NextVoiceId == Len(voices) + 1

\* tsx 369-375: no guard on an existing entry
startForPointer_tsx(pointerId, step) ==
  LET f == freqForStepFromBase(step, baseFreq)
  IN /\ CanConstruct
     /\ voices' = Append(voices, NewVoice(PointerSrc(pointerId), f))
     /\ activePointers' = activePointers \cup {pointerId}
     /\ activeVoices' = Put(activeVoices, pointerId, [voice |-> NextVoiceId, step |-> step])
     /\ SetVis(incGlow(Vis, step))
     /\ activeHz' = f
     /\ activeStep' = step
     /\ UNCHANGED <<activeKeys, latchedVoices>>

\* p0 469-476 + 490-494
startForPointer_p0(pointerId, step) ==
  LET f == freqForStepFromBase(step, baseFreq)
  IN /\ CanConstruct
     /\ voices' = Append(voices, NewVoice(PointerSrc(pointerId), f))
     /\ SetVis(incGlow(Vis, step))
     /\ activeHz' = f
     /\ activeStep' = step
     /\ activePointers' = Put(activePointers, pointerId, step)
     /\ activeVoices' = Put(activeVoices, pointerId, [voice |-> NextVoiceId, step |-> step])
     /\ UNCHANGED <<activeKeys, latchedVoices>>

\* mutant of retuneForPointer_tsx: the move retriggers (stops the held Voice
\* and constructs a new one) instead of sliding the held Voice
retuneForPointer_tsx_retrigger(pointerId, step) ==
  IF ~Has(activeVoices, pointerId) THEN UNCHANGED engine
  ELSE
    LET entry == activeVoices[pointerId]
        prev == entry.step
        f == freqForStepFromBase(step, baseFreq)
    IN /\ CanConstruct
       /\ SetVis(incGlow(maybeBeginFade(Vis, prev, release), step))
       /\ voices' = Append([voices EXCEPT ![entry.voice] = Voice_stop(@, prev)],
                           NewVoice(PointerSrc(pointerId), f))
       /\ activeVoices' = Put(activeVoices, pointerId, [voice |-> NextVoiceId, step |-> step])
       /\ activeHz' = f
       /\ activeStep' = step
       /\ UNCHANGED <<activePointers, activeKeys, latchedVoices>>

retuneForPointer_tsx(pointerId, step) ==
  IF ~Has(activeVoices, pointerId) THEN UNCHANGED engine
  ELSE
    LET entry == activeVoices[pointerId]
        prev == entry.step
        f == freqForStepFromBase(step, baseFreq)
    IN /\ SetVis(IF prev # step THEN incGlow(decGlow(Vis, prev), step) ELSE Vis)
       /\ activeVoices' = [activeVoices EXCEPT ![pointerId].step = step]
       /\ voices' = [voices EXCEPT ![entry.voice] = setFrequency(@, f)]
       /\ activeHz' = f
       /\ activeStep' = step
       /\ UNCHANGED <<activePointers, activeKeys, latchedVoices>>

retuneForPointer_p0(pointerId, step) ==
  IF ~Has(activeVoices, pointerId) THEN UNCHANGED engine
  ELSE
    LET ent == activeVoices[pointerId]
        f == freqForStepFromBase(step, baseFreq)
    IN /\ Get(glowCounts, step, 0) < MaxGlow
       /\ voices' = [voices EXCEPT ![ent.voice] = setFrequency(@, f)]
       /\ SetVis(incGlow(Vis, step))
       /\ activeHz' = f
       /\ activeStep' = step
       /\ activeVoices' = Put(activeVoices, pointerId, [voice |-> ent.voice, step |-> step])
       /\ UNCHANGED <<activePointers, activeKeys, latchedVoices>>

\* mutant of stopForPointer: the missing-entry guard is gone and the stop falls
\* back on the step of the readout
stopForPointer_unguarded(pointerId) ==
  LET known == Has(activeVoices, pointerId)
      step == IF known THEN activeVoices[pointerId].step ELSE activeStep
  IN /\ SetVis(IF step # NoStep THEN maybeBeginFade(Vis, step, release) ELSE Vis)
     /\ voices' = IF known
                  THEN [voices EXCEPT ![activeVoices[pointerId].voice] = Voice_stop(@, step)]
                  ELSE voices
     /\ activeVoices' = Del(activeVoices, pointerId)
     /\ activePointers' = IF impl = "tsx" THEN activePointers \ {pointerId}
                                          ELSE Del(activePointers, pointerId)
     /\ UNCHANGED <<activeKeys, latchedVoices, activeHz, activeStep>>

\* identical in both revisions (tsx 382-386, p0 505-513)
stopForPointer(pointerId) ==
  IF ~Has(activeVoices, pointerId) THEN UNCHANGED engine
  ELSE
    LET entry == activeVoices[pointerId]
        step == entry.step
    IN /\ SetVis(maybeBeginFade(Vis, step, release))
       /\ voices' = [voices EXCEPT ![entry.voice] = Voice_stop(@, step)]
       /\ activeVoices' = Del(activeVoices, pointerId)
       /\ activePointers' = IF impl = "tsx" THEN activePointers \ {pointerId}
                                            ELSE Del(activePointers, pointerId)
       /\ UNCHANGED <<activeKeys, latchedVoices, activeHz, activeStep>>

\* mutant of startForKey_tsx: when a pointer already holds a Voice on the
\* step, the key registers that Voice instead of constructing its own
startForKey_tsx_sharesVoice(key, step) ==
  IF Has(activeKeys, key) THEN UNCHANGED engine
  ELSE
    LET f == freqForStepFromBase(step, baseFreq)
        held == {p \in DOMAIN activeVoices : activeVoices[p].step = step}
    IN IF held # {}
       THEN /\ activeKeys' = Put(activeKeys, key,
                                 [voice |-> activeVoices[CHOOSE p \in held : TRUE].voice,
                                  step |-> step])
            /\ SetVis(incGlow(Vis, step))
            /\ activeHz' = f
            /\ activeStep' = step
            /\ UNCHANGED <<voices, activePointers, activeVoices, latchedVoices>>
       ELSE /\ CanConstruct
            /\ voices' = Append(voices, NewVoice(KeySrc(key), f))
            /\ activeKeys' = Put(activeKeys, key, [voice |-> NextVoiceId, step |-> step])
            /\ SetVis(incGlow(Vis, step))
            /\ activeHz' = f
            /\ activeStep' = step
            /\ UNCHANGED <<activePointers, activeVoices, latchedVoices>>

\* tsx 389-394: guarded by activeKeys.has(key)
startForKey_tsx(key, step) ==
  IF Has(activeKeys, key) THEN UNCHANGED engine
  ELSE
    LET f == freqForStepFromBase(step, baseFreq)
    IN /\ CanConstruct
       /\ voices' = Append(voices, NewVoice(KeySrc(key), f))
       /\ activeKeys' = Put(activeKeys, key, [voice |-> NextVoiceId, step |-> step])
       /\ SetVis(incGlow(Vis, step))
       /\ activeHz' = f
       /\ activeStep' = step
       /\ UNCHANGED <<activePointers, activeVoices, latchedVoices>>

\* p0 477-480: no guard
startForKey_p0(key, step) ==
  LET f == freqForStepFromBase(step, baseFreq)
  IN /\ CanConstruct
     /\ voices' = Append(voices, NewVoice(KeySrc(key), f))
     /\ SetVis(incGlow(Vis, step))
     /\ activeHz' = f
     /\ activeStep' = step
     /\ activeKeys' = Put(activeKeys, key, [voice |-> NextVoiceId, step |-> step])
     /\ UNCHANGED <<activePointers, activeVoices, latchedVoices>>

\* mutant of stopForKey: the key's release silences the whole step, the
\* Voices that pointers hold on it included
stopForKey_silencesStep(key) ==
  IF ~Has(activeKeys, key) THEN UNCHANGED engine
  ELSE
    LET entry == activeKeys[key]
        step == entry.step
        ps == {p \in DOMAIN activeVoices : activeVoices[p].step = step}
        vs == {activeVoices[p].voice : p \in ps} \cup {entry.voice}
    IN /\ SetVis(maybeBeginFade(Vis, step, release))
       /\ voices' = [v \in DOMAIN voices |->
                       IF v \in vs THEN Voice_stop(voices[v], step) ELSE voices[v]]
       /\ activeKeys' = Del(activeKeys, key)
       /\ activeVoices' = [p \in DOMAIN activeVoices \ ps |-> activeVoices[p]]
       /\ UNCHANGED <<activePointers, latchedVoices, activeHz, activeStep>>

\* identical in both revisions (tsx 395-398, p0 481-488)
stopForKey(key) ==
  IF ~Has(activeKeys, key) THEN UNCHANGED engine
  ELSE
    LET entry == activeKeys[key]
        step == entry.step
    IN /\ SetVis(maybeBeginFade(Vis, step, release))
       /\ voices' = [voices EXCEPT ![entry.voice] = Voice_stop(@, step)]
       /\ activeKeys' = Del(activeKeys, key)
       /\ UNCHANGED <<activePointers, activeVoices, latchedVoices, activeHz, activeStep>>

\* mutant of toggleLatched_tsx: the lookup of an existing latched Voice is
\* gone, so every activation starts
toggleLatched_tsx_alwaysStart(step) ==
  LET f == freqForStepFromBase(step, baseFreq)
  IN /\ CanConstruct
     /\ voices' = Append(voices, NewVoice(LatchSrc(step), f))
     /\ latchedVoices' = Put(latchedVoices, step, NextVoiceId)
     /\ SetVis(incGlow(Vis, step))
     /\ activeHz' = f
     /\ activeStep' = step
     /\ UNCHANGED <<activePointers, activeVoices, activeKeys>>

toggleLatched_tsx(step) ==
  IF Has(latchedVoices, step)
  THEN
    LET existing == latchedVoices[step]
        cleared == DOMAIN activeVoices = {} /\ DOMAIN Del(latchedVoices, step) = {}
    IN /\ SetVis(maybeBeginFade(Vis, step, release))
       /\ voices' = [voices EXCEPT ![existing] = Voice_stop(@, step)]
       /\ latchedVoices' = Del(latchedVoices, step)
       /\ activeHz' = IF cleared THEN NoHz ELSE activeHz
       /\ activeStep' = IF cleared THEN NoStep ELSE activeStep
       /\ UNCHANGED <<activePointers, activeVoices, activeKeys>>
  ELSE
    LET f == freqForStepFromBase(step, baseFreq)
    IN /\ CanConstruct
       /\ voices' = Append(voices, NewVoice(LatchSrc(step), f))
       /\ latchedVoices' = Put(latchedVoices, step, NextVoiceId)
       /\ SetVis(incGlow(Vis, step))
       /\ activeHz' = f
       /\ activeStep' = step
       /\ UNCHANGED <<activePointers, activeVoices, activeKeys>>

toggleLatched_p0(step) ==
  IF Has(latchedVoices, step)
  THEN
    LET v == latchedVoices[step]
    IN /\ SetVis(maybeBeginFade(Vis, step, release))
       /\ voices' = [voices EXCEPT ![v] = Voice_stop(@, step)]
       /\ latchedVoices' = Del(latchedVoices, step)
       /\ UNCHANGED <<activePointers, activeVoices, activeKeys, activeHz, activeStep>>
  ELSE
    LET f == freqForStepFromBase(step, baseFreq)
    IN /\ CanConstruct
       /\ voices' = Append(voices, NewVoice(LatchSrc(step), f))
       /\ latchedVoices' = Put(latchedVoices, step, NextVoiceId)
       /\ SetVis(incGlow(Vis, step))
       /\ activeHz' = f
       /\ activeStep' = step
       /\ UNCHANGED <<activePointers, activeVoices, activeKeys>>

toggleLatched(step) == IF impl = "tsx" THEN toggleLatched_tsx(step) ELSE toggleLatched_p0(step)

\* ------------------------------ allOff ------------------------------
\* the registered {voice, step} pairs in forEach order (the order is immaterial:
\* maybeBeginFade reads only glow counts, which allOff does not change)
RECURSIVE MapEntries(_)
MapEntries(m) ==
  IF DOMAIN m = {} THEN <<>>
  ELSE LET k == CHOOSE x \in DOMAIN m : TRUE
       IN <<m[k]>> \o MapEntries(Del(m, k))

RECURSIVE LatchEntries(_)
LatchEntries(m) ==
  IF DOMAIN m = {} THEN <<>>
  ELSE LET k == CHOOSE x \in DOMAIN m : TRUE
       IN <<[voice |-> m[k], step |-> k]>> \o LatchEntries(Del(m, k))

\* forEach(({voice, step}) => { maybeBeginFade(step); voice.stop(release, () => decGlow(step)); })
RECURSIVE StopEach(_, _)
StopEach(acc, entries) ==
  IF entries = <<>> THEN acc
  ELSE LET e == Head(entries)
       IN StopEach([vis |-> maybeBeginFade(acc.vis, e.step, release),
                    voices |-> [acc.voices EXCEPT ![e.voice] = Voice_stop(@, e.step)]],
                   Tail(entries))

allOff ==
  LET r == StopEach([vis |-> Vis, voices |-> voices],
                    MapEntries(activeVoices) \o MapEntries(activeKeys)
                      \o LatchEntries(latchedVoices))
  IN /\ SetVis(r.vis)
     /\ voices' = r.voices
     /\ activeVoices' = EmptyMap
     /\ activePointers' = IF impl = "tsx" THEN {} ELSE EmptyMap
     /\ activeKeys' = EmptyMap
     /\ latchedVoices' = EmptyMap
     /\ activeHz' = NoHz
     /\ activeStep' = NoStep

\* ------------------------------ parameter effects ------------------------------
Voice_setGain_tsx(v, target) == [v EXCEPT !.gainTarget = target, !.settled = FALSE]
Voice_setGain_p0(v, g) == [v EXCEPT !.gainTarget = g, !.releaseCurve = g, !.settled = FALSE]
Voice_setGain(v, g) == IF impl = "tsx" THEN Voice_setGain_tsx(v, g) ELSE Voice_setGain_p0(v, g)
Voice_setWaveform(v, type) == [v EXCEPT !.type = type]

PointerHeld == {activeVoices[p].voice : p \in DOMAIN activeVoices}
Latched == {latchedVoices[s] : s \in DOMAIN latchedVoices}
KeyHeld == {activeKeys[k].voice : k \in DOMAIN activeKeys}

\* useEffect(..., [gain]): activeVoices and latchedVoices only
GainEffect(g) ==
  voices' = [v \in DOMAIN voices |->
               IF v \in PointerHeld \cup Latched THEN Voice_setGain(voices[v], g)
               ELSE voices[v]]

\* useEffect(..., [waveform]): activeVoices and latchedVoices only
WaveformEffect(w) ==
  voices' = [v \in DOMAIN voices |->
               IF v \in PointerHeld \cup Latched THEN Voice_setWaveform(voices[v], w)
               ELSE voices[v]]

\* useEffect(..., [transpose12, baseFreq]): activeVoices only; the readout is
\* left at the entry visited last.  Map.forEach visits in insertion order,
\* which the model does not keep: any entry may be the last one.
TransposeEffect(t) ==
  LET base == baseFreqFromSemitones(t)
  IN /\ voices' = [v \in DOMAIN voices |->
                     IF \E p \in DOMAIN activeVoices : activeVoices[p].voice = v
                     THEN LET p == CHOOSE q \in DOMAIN activeVoices : activeVoices[q].voice = v
                          IN setFrequency(voices[v], freqForStepFromBase(activeVoices[p].step, base))
                     ELSE voices[v]]
     /\ IF DOMAIN activeVoices = {}
        THEN UNCHANGED <<activeHz, activeStep>>
        ELSE \E p \in DOMAIN activeVoices :
               /\ activeHz' = freqForStepFromBase(activeVoices[p].step, base)
               /\ activeStep' = activeVoices[p].step

\* ------------------------------ events ------------------------------
onPointerDown_tsx(p, step) ==
  /\ impl = "tsx"
  /\ IF sustain THEN toggleLatched_tsx(step) ELSE startForPointer_tsx(p, step)
  /\ UNCHANGED <<impl, probe, params>>

onPointerDown_p0(p, step) ==
  /\ impl = "p0"
  /\ IF sustain THEN toggleLatched_p0(step) ELSE startForPointer_p0(p, step)
  /\ UNCHANGED <<impl, probe, params>>

onPointerEnter_tsx(p, step) ==
  /\ impl = "tsx"
  /\ IF ~sustain /\ p \in activePointers
     THEN retuneForPointer_tsx(p, step)
     ELSE UNCHANGED engine
  /\ UNCHANGED <<impl, probe, params>>

\* mutant of onPointerEnter_p0: dragging onto a key with the button held
\* starts a note when the pointer holds none
onPointerEnter_p0_startsOnEnter(p, step, primary) ==
  /\ impl = "p0"
  /\ IF primary
     THEN IF Has(activePointers, p) THEN retuneForPointer_p0(p, step)
          ELSE startForPointer_p0(p, step)
     ELSE UNCHANGED engine
  /\ UNCHANGED <<impl, probe, params>>

\* primary: (e.buttons & 1) === 1
onPointerEnter_p0(p, step, primary) ==
  /\ impl = "p0"
  /\ IF primary /\ Has(activePointers, p)
     THEN retuneForPointer_p0(p, step)
     ELSE UNCHANGED engine
  /\ UNCHANGED <<impl, probe, params>>

\* tsx: the key's onPointerUp / onPointerCancel (if !sustain) and then the
\* window listener handleUp / handleCancel, which stops unconditionally
onPointerUp_tsx(p) ==
  /\ impl = "tsx"
  /\ stopForPointer(p)
  /\ UNCHANGED <<impl, probe, params>>

\* p0: only the key's onPointerUp / onPointerCancel
onPointerUp_p0(p) ==
  /\ impl = "p0"
  /\ IF ~sustain THEN stopForPointer(p) ELSE UNCHANGED engine
  /\ UNCHANGED <<impl, probe, params>>

\* blocked: isTextEntry(e.target) || selectOpenRef.current
keydown_tsx(key, repeat, blocked) ==
  LET step == resolveStepForKey(key, cesniSteps)
  IN /\ impl = "tsx"
     /\ IF blocked \/ step = NoStep \/ repeat THEN UNCHANGED engine
        ELSE IF sustain THEN toggleLatched_tsx(step)
        ELSE startForKey_tsx(key, step)
     /\ UNCHANGED <<impl, probe, params>>

\* mutant of keyup_tsx: with sustain on, the key's up event releases the latch
\* of the key's step
keyup_tsx_unlatches(key, blocked) ==
  LET step == resolveStepForKey(key, cesniSteps)
  IN /\ impl = "tsx"
     /\ IF blocked \/ step = NoStep THEN UNCHANGED engine
        ELSE IF sustain
        THEN IF Has(latchedVoices, step) THEN toggleLatched_tsx(step) ELSE UNCHANGED engine
        ELSE stopForKey(key)
     /\ UNCHANGED <<impl, probe, params>>

keyup_tsx(key, blocked) ==
  LET step == resolveStepForKey(key, cesniSteps)
  IN /\ impl = "tsx"
     /\ IF blocked \/ step = NoStep \/ sustain THEN UNCHANGED engine
        ELSE stopForKey(key)
     /\ UNCHANGED <<impl, probe, params>>

\* p0: a focused text entry only filters keys that are not playable
ResolveKey_p0(k) ==
  LET s1 == resolveStepForKeyWithOrder(k, cesniSteps, orderKb1)
      rel2 == resolveStepForKeyWithOrder(k, cesni2RelSteps, orderKb2)
  IN IF s1 # NoStep THEN s1
     ELSE IF rel2 # NoStep THEN startStep2 + rel2
     ELSE NoStep

keydown_p0(k, repeat) ==
  LET step == ResolveKey_p0(k)
  IN /\ impl = "p0"
     /\ IF repeat \/ step = NoStep THEN UNCHANGED engine
        ELSE IF sustain THEN toggleLatched_p0(step)
        ELSE startForKey_p0(k, step)
     /\ UNCHANGED <<impl, probe, params>>

keyup_p0(k) ==
  LET matchKb1 == resolveStepForKeyWithOrder(k, cesniSteps, orderKb1) # NoStep
      matchKb2 == resolveStepForKeyWithOrder(k, cesni2RelSteps, orderKb2) # NoStep
  IN /\ impl = "p0"
     /\ IF (~matchKb1 /\ ~matchKb2) \/ sustain THEN UNCHANGED engine
        ELSE stopForKey(k)
     /\ UNCHANGED <<impl, probe, params>>

AllOffClick ==
  /\ allOff
  /\ UNCHANGED <<impl, probe, params>>

\* After its ended event a Voice is garbage: the stop that preceded removed its
\* registry entry and nothing reads it again.  The model keeps of it only that
\* it was stopped and has ended.
EndedVoice ==
  [owner |-> LatchSrc(NoStep), type |-> "sine", frequency |-> 0, gainTarget |-> 0,
   releaseCurve |-> NoCurve, stopped |-> TRUE, oscStops |-> 1,
   onended |-> NoStep, ended |-> TRUE, settled |-> TRUE, curveStart |-> NoCurve]

\* mutant of onended: the settle callback also clears the registry entry of
\* the source that owned the Voice
onended_unregisters(v) ==
  /\ v \in DOMAIN voices
  /\ voices[v].oscStops > 0
  /\ ~voices[v].ended
  /\ voices' = [voices EXCEPT ![v] = EndedVoice]
  /\ SetVis(IF voices[v].onended # NoStep THEN decGlow(Vis, voices[v].onended) ELSE Vis)
  /\ activeVoices' = Del(activeVoices, voices[v].owner.p)
  /\ activePointers' = IF impl = "tsx" THEN activePointers \ {voices[v].owner.p}
                                       ELSE Del(activePointers, voices[v].owner.p)
  /\ activeKeys' = Del(activeKeys, voices[v].owner.k)
  /\ UNCHANGED <<impl, probe, params, latchedVoices, activeHz, activeStep>>

\* the oscillator of a stopped Voice ends: osc.onended runs () => decGlow(step)
onended(v) ==
  /\ v \in DOMAIN voices
  /\ voices[v].oscStops > 0
  /\ ~voices[v].ended
  /\ voices' = [voices EXCEPT ![v] = EndedVoice]
  /\ SetVis(IF voices[v].onended # NoStep THEN decGlow(Vis, voices[v].onended) ELSE Vis)
  /\ UNCHANGED <<impl, probe, params, activePointers, activeVoices, activeKeys, latchedVoices,
                 activeHz, activeStep>>

\* p0: setTimeout(() => { fadeInfo.current.delete(step); tick(); }, ms + 10)
FadeTimeout_p0(step) ==
  /\ impl = "p0"
  /\ Get(fadeTimers, step, 0) > 0
  /\ fadeInfo' = Del(fadeInfo, step)
  /\ fadeTimers' = IF fadeTimers[step] = 1 THEN Del(fadeTimers, step)
                   ELSE Put(fadeTimers, step, fadeTimers[step] - 1)
  /\ UNCHANGED <<impl, probe, params, voices, activePointers, activeVoices, activeKeys,
                 latchedVoices, glowCounts, activeHz, activeStep>>

SetSustain ==
  /\ sustain' = ~sustain
  /\ UNCHANGED <<impl, probe, engine, waveform, gain, release, transpose12, cesniId>>

SetGain(g) ==
  /\ g # gain
  /\ gain' = g
  /\ GainEffect(g)
  /\ UNCHANGED <<impl, probe, waveform, release, sustain, transpose12, cesniId,
                 activePointers, activeVoices, activeKeys, latchedVoices,
                 glowCounts, fadeInfo, fadeTimers, activeHz, activeStep>>

SetWaveform(w) ==
  /\ w # waveform
  /\ waveform' = w
  /\ WaveformEffect(w)
  /\ UNCHANGED <<impl, probe, gain, release, sustain, transpose12, cesniId,
                 activePointers, activeVoices, activeKeys, latchedVoices,
                 glowCounts, fadeInfo, fadeTimers, activeHz, activeStep>>

SetTranspose12(t) ==
  /\ t # transpose12
  /\ transpose12' = t
  /\ TransposeEffect(t)
  /\ UNCHANGED <<impl, probe, waveform, gain, release, sustain, cesniId,
                 activePointers, activeVoices, activeKeys, latchedVoices,
                 glowCounts, fadeInfo, fadeTimers>>

SetRelease(r) ==
  /\ r # release
  /\ release' = r
  /\ UNCHANGED <<impl, probe, engine, waveform, gain, sustain, transpose12, cesniId>>

SetCesniId(id) ==
  /\ id # cesniId
  /\ cesniId' = id
  /\ UNCHANGED <<impl, probe, engine, waveform, gain, release, sustain, transpose12>>

PointerDown_tsx == \E p \in PointerIds, s \in PointerSteps : onPointerDown_tsx(p, s)
PointerDown_p0 == \E p \in PointerIds, s \in PointerSteps : onPointerDown_p0(p, s)
PointerEnter_tsx == \E p \in PointerIds, s \in PointerSteps : onPointerEnter_tsx(p, s)
PointerEnter_p0 ==
  \E p \in PointerIds, s \in PointerSteps, b \in BOOLEAN : onPointerEnter_p0(p, s, b)
PointerUp_tsx == \E p \in PointerIds : onPointerUp_tsx(p)
PointerUp_p0 == \E p \in PointerIds : onPointerUp_p0(p)
KeyDown_tsx == \E k \in KeyIds, r \in BOOLEAN, b \in BOOLEAN : keydown_tsx(k, r, b)
KeyDown_p0 == \E k \in KeyIds, r \in BOOLEAN : keydown_p0(k, r)
KeyUp_tsx == \E k \in KeyIds, b \in BOOLEAN : keyup_tsx(k, b)
KeyUp_p0 == \E k \in KeyIds : keyup_p0(k)
Ended == \E v \in 1..MaxVoices : onended(v)
FadeTimeout == \E s \in Steps : FadeTimeout_p0(s)
ChangeGain == \E g \in Gains : SetGain(g)
ChangeWaveform == \E w \in Waveforms : SetWaveform(w)
ChangeTranspose == \E t \in Transposes : SetTranspose12(t)
ChangeRelease == \E r \in Releases : SetRelease(r)
ChangeCesni == \E id \in CesniIds : SetCesniId(id)

\* The input machines, the latch mode switch, allOff, the settle callbacks and
\* the fade timers.  gain, waveform, release, transposition and scale keep
\* their initial values here: no handler of this relation reads a Voice's
\* type, gain or frequency, or branches on release.
Next ==
  \/ PointerDown_tsx
  \/ PointerDown_p0
  \/ PointerEnter_tsx
  \/ PointerEnter_p0
  \/ PointerUp_tsx
  \/ PointerUp_p0
  \/ KeyDown_tsx
  \/ KeyDown_p0
  \/ KeyUp_tsx
  \/ KeyUp_p0
  \/ AllOffClick
  \/ Ended
  \/ FadeTimeout
  \/ SetSustain

Spec == Init /\ [][Next]_vars

\* The same with the parameter controls.
NextParams ==
  \/ Next
  \/ ChangeGain
  \/ ChangeWaveform
  \/ ChangeTranspose
  \/ ChangeRelease
  \/ ChangeCesni

SpecParams == Init /\ [][NextParams]_vars

\* The input machines with the transposition control alone.
NextTranspose ==
  \/ Next
  \/ ChangeTranspose

SpecTranspose == Init /\ [][NextTranspose]_vars

\* The input machines with the scale (cesni) selection alone.
NextCesni ==
  \/ Next
  \/ ChangeCesni

SpecCesni == Init /\ [][NextCesni]_vars

\* The input machines with the gain and waveform controls alone.
NextTone ==
  \/ Next
  \/ ChangeGain
  \/ ChangeWaveform

SpecTone == Init /\ [][NextTone]_vars

\* Hold-to-sound input where allOff is the only stop: no release event arrives
\* and sustain stays off, so every settle callback belongs to a Voice that
\* allOff stopped and fires after allOff has cleared the registries.
NextAllOff ==
  \/ PointerDown_tsx
  \/ PointerDown_p0
  \/ PointerEnter_tsx
  \/ PointerEnter_p0
  \/ KeyDown_tsx
  \/ KeyDown_p0
  \/ AllOffClick
  \/ Ended
  \/ FadeTimeout

SpecAllOff == Init /\ [][NextAllOff]_vars

\* The component with its scheduling: the oscillator of every stopped Voice
\* ends (osc.stop(t) was called with a finite t, and the ended event is then
\* dispatched), and every timer set with setTimeout fires.
SpecFair ==
  /\ Init /\ [][Next]_vars
  /\ \A v \in 1..MaxVoices : WF_vars(onended(v))
  /\ \A s \in Steps : WF_vars(FadeTimeout_p0(s))

\* The start handlers when the Voice constructor throws (the audio context
\* refuses a node, or a parameter is not finite).  The statements before
\* new Voice(...) have run, the ones after it have not, and the exception
\* leaves the handler.
\* mutant of startForPointer_throws: the pointer is registered and counted
\* before the Voice is constructed
startForPointer_throws_registersFirst(pointerId, step) ==
  /\ activePointers' = IF impl = "tsx" THEN activePointers \cup {pointerId}
                                       ELSE Put(activePointers, pointerId, step)
  /\ SetVis(incGlow(Vis, step))
  /\ UNCHANGED <<voices, activeVoices, activeKeys, latchedVoices, activeHz, activeStep>>

\* tsx 370-371: getCtx(), f, new Voice throws; 372-374 are not reached
\* p0 490-491 -> startVoice 470-472: new Voice throws; 473-475 and 492-493 are not reached
startForPointer_throws(pointerId, step) == UNCHANGED engine

\* tsx 390-392 (after the activeKeys.has guard); p0 478 -> startVoice 470-472
startForKey_throws(key, step) == UNCHANGED engine

\* the stop branch constructs nothing; the start branch throws at tsx 407, p0 524
toggleLatched_throws(step) ==
  IF Has(latchedVoices, step) THEN toggleLatched(step) ELSE UNCHANGED engine

onPointerDown_throws(p, step) ==
  /\ IF sustain THEN toggleLatched_throws(step) ELSE startForPointer_throws(p, step)
  /\ UNCHANGED <<impl, probe, params>>

keydown_throws(k) ==
  LET step == IF impl = "tsx" THEN resolveStepForKey(k, cesniSteps) ELSE ResolveKey_p0(k)
  IN /\ IF step = NoStep THEN UNCHANGED engine
        ELSE IF sustain THEN toggleLatched_throws(step)
        ELSE startForKey_throws(k, step)
     /\ UNCHANGED <<impl, probe, params>>

PointerDownThrows == \E p \in PointerIds, s \in PointerSteps : onPointerDown_throws(p, s)
KeyDownThrows == \E k \in KeyIds : keydown_throws(k)

NextThrow ==
  \/ Next
  \/ PointerDownThrows
  \/ KeyDownThrows

SpecThrow == Init /\ [][NextThrow]_vars

\* The Voice class on its own: any caller may construct a Voice and call
\* stop(release, onEnded) on any Voice any number of times; the oscillator of
\* a stopped Voice ends.
Voice_construct(step) ==
  /\ CanConstruct
  /\ voices' = Append(voices, NewVoice(LatchSrc(step), freqForStepFromBase(step, baseFreq)))
  /\ UNCHANGED <<impl, probe, params, activePointers, activeVoices, activeKeys, latchedVoices,
                 glowCounts, fadeInfo, fadeTimers, activeHz, activeStep>>

Voice_stop_call(v, cb) ==
  /\ v \in DOMAIN voices
  /\ voices[v].oscStops < MaxStops
  /\ voices' = [voices EXCEPT ![v] = Voice_stop(@, cb)]
  /\ UNCHANGED <<impl, probe, params, activePointers, activeVoices, activeKeys, latchedVoices,
                 glowCounts, fadeInfo, fadeTimers, activeHz, activeStep>>

\* setGain on a Voice that has not been stopped
Voice_setGain_call(v, g) ==
  /\ v \in DOMAIN voices
  /\ voices[v].oscStops = 0
  /\ voices' = [voices EXCEPT ![v] = Voice_setGain(@, g)]
  /\ UNCHANGED <<impl, probe, params, activePointers, activeVoices, activeKeys, latchedVoices,
                 glowCounts, fadeInfo, fadeTimers, activeHz, activeStep>>

\* the audio clock passes the end of the ramp that the constructor
\* (linearRampToValueAtTime) or setGain scheduled: gain.gain.value is the target
Voice_rampEnds(v) ==
  /\ v \in DOMAIN voices
  /\ voices[v].oscStops = 0
  /\ ~voices[v].settled
  /\ voices' = [voices EXCEPT ![v].settled = TRUE]
  /\ UNCHANGED <<impl, probe, params, activePointers, activeVoices, activeKeys, latchedVoices,
                 glowCounts, fadeInfo, fadeTimers, activeHz, activeStep>>

VoiceConstruct == \E s \in Steps : Voice_construct(s)
VoiceStop == \E v \in 1..MaxVoices, cb \in Steps : Voice_stop_call(v, cb)
VoiceSetGain == \E v \in 1..MaxVoices, g \in Gains : Voice_setGain_call(v, g)
VoiceRampEnds == \E v \in 1..MaxVoices : Voice_rampEnds(v)

NextVoice ==
  \/ VoiceConstruct
  \/ VoiceStop
  \/ VoiceSetGain
  \/ VoiceRampEnds
  \/ Ended

SpecVoice == Init /\ [][NextVoice]_vars

\* The module-level helpers on their own: a caller picks the arguments and
\* calls the helper.
midiNameFromSemis(d) ==
  IF impl = "tsx" THEN midiNameFromSemis_tsx(d) ELSE midiNameFromSemis_p0(d)

NoteCalls == {[fn |-> "midiNameFromSemis", d |-> d, done |-> FALSE] : d \in (0 - MaxSemis)..MaxSemis}

CallMidiName ==
  /\ probe.fn = "midiNameFromSemis"
  /\ ~probe.done
  /\ probe' = [fn |-> probe.fn, d |-> probe.d, done |-> TRUE, out |-> midiNameFromSemis(probe.d)]
  /\ UNCHANGED <<impl, params, engine>>

CurveStarts == {-150000, 0, 1, 50, 150000, 300000}
CurveEnds == {-100, 0, 1, 100}
CurveCalls ==
  {[fn |-> "buildSmoothDecayCurve", start |-> a, end |-> e, points |-> n, done |-> FALSE] :
     a \in CurveStarts, e \in CurveEnds, n \in 0..MaxPoints}

CallDecayCurve ==
  /\ probe.fn = "buildSmoothDecayCurve"
  /\ ~probe.done
  /\ probe' = [fn |-> probe.fn, start |-> probe.start, end |-> probe.end,
               points |-> probe.points, done |-> TRUE,
               out |-> buildSmoothDecayCurve(probe.start, probe.end, probe.points)]
  /\ UNCHANGED <<impl, params, engine>>

\* The double a call of freqForStepFromBase returns: the exact value
\* D4_FREQ * 2^(log / Octave) times (1 + ulps * 2^-52).  Math.pow is
\* implementation-approximated and the product is rounded, so the rounding
\* error of a result is any value within the bound.
Ulps == (0 - MaxUlps)..MaxUlps
FreqDouble(step, base, e) == [log |-> freqForStepFromBase(step, base), ulps |-> e]
\* 2 * f is exact in binary floating point
Twice(f) == [log |-> f.log + Octave, ulps |-> f.ulps]

FreqBases == {baseFreqFromSemitones(t) : t \in {-12, 0, 7}}
FreqCalls ==
  {[fn |-> "freqForStepFromBase", step |-> st, base |-> b, done |-> FALSE] :
     st \in (0 - MaxFreqStep)..MaxFreqStep, b \in FreqBases}

\* frequency(s, base) and frequency(s - 53, base)
CallFreq ==
  /\ probe.fn = "freqForStepFromBase"
  /\ ~probe.done
  /\ \E e1 \in Ulps, e2 \in Ulps :
       probe' = [fn |-> probe.fn, step |-> probe.step, base |-> probe.base, done |-> TRUE,
                 out |-> FreqDouble(probe.step, probe.base, e1),
                 below |-> FreqDouble(probe.step - STEPS, probe.base, e2)]
  /\ UNCHANGED <<impl, params, engine>>

\* release times in ms: negative, 0, below and around MIN_REL, around the
\* point where the floor stops binding (80 ms), the defaults, a long one
ReleaseValues == {-20, 0, 10, 29, 30, 31, 79, 80, 81, 120, 450, 2000}
ReleaseCalls ==
  {[fn |-> "visualReleaseMs", rel |-> a, rel2 |-> b, done |-> FALSE] :
     a \in ReleaseValues, b \in ReleaseValues}

\* visualReleaseMs(rel) and visualReleaseMs(rel2)
CallVisualRelease ==
  /\ probe.fn = "visualReleaseMs"
  /\ ~probe.done
  /\ probe' = [fn |-> probe.fn, rel |-> probe.rel, rel2 |-> probe.rel2, done |-> TRUE,
               out |-> visualReleaseMs(probe.rel), out2 |-> visualReleaseMs(probe.rel2)]
  /\ UNCHANGED <<impl, params, engine>>

ResolveKeys == {"a", "A", "s", "d", "F", "g", "G", "h", "L", ";", "x", "Shift", " "}
ResolveCalls ==
  {[fn |-> "resolveStepForKey", key |-> k, steps |-> CesniSteps(id), order |-> o,
    done |-> FALSE] :
     k \in ResolveKeys, id \in {"rast_penta", "ussak_tetra", "none"},
     o \in {orderKb1, orderKb2}}

\* tsx: resolveStepForKey(key, steps), whose order is fixed;
\* p0: resolveStepForKeyWithOrder(key, steps, order)
CallResolveStep ==
  /\ probe.fn = "resolveStepForKey"
  /\ ~probe.done
  /\ impl = "tsx" => probe.order = orderKb1
  /\ probe' = [fn |-> probe.fn, key |-> probe.key, steps |-> probe.steps,
               order |-> probe.order, done |-> TRUE,
               out |-> IF impl = "tsx"
                       THEN resolveStepForKey(probe.key, probe.steps)
                       ELSE resolveStepForKeyWithOrder(probe.key, probe.steps, probe.order)]
  /\ UNCHANGED <<impl, params, engine>>

HelperCalls == NoteCalls \cup CurveCalls \cup FreqCalls \cup ReleaseCalls \cup ResolveCalls

InitHelpers ==
  /\ Mounted
  /\ probe \in HelperCalls

NextHelpers ==
  \/ CallMidiName
  \/ CallDecayCurve
  \/ CallFreq
  \/ CallVisualRelease
  \/ CallResolveStep

SpecHelpers == InitHelpers /\ [][NextHelpers]_vars

\* ============================== properties ==============================
Count(g, s) == Get(g, s, 0)
Unstopped(v) == voices[v].oscStops = 0
Releasing(v) == voices[v].oscStops > 0 /\ ~voices[v].ended

RECURSIVE SumCounts(_, _)
SumCounts(g, ss) ==
  IF ss = {} THEN 0
  ELSE LET s == CHOOSE x \in ss : TRUE IN Count(g, s) + SumCounts(g, ss \ {s})

\* C1: every input source identity (pointer id, key id, latched step) has at
\* most one Voice that has been constructed and not yet stopped.
C1_OneVoicePerSource ==
  \A v, w \in DOMAIN voices :
    (v # w /\ Unstopped(v) /\ Unstopped(w)) => voices[v].owner # voices[w].owner

\* C2: a start (hold-to-sound down event) for a pointer or key that already
\* has a registered voice is a no-op: no Voice is constructed, the registered
\* Voice is unchanged and no liveness count changes.
C2_Frame ==
  /\ voices' = voices
  /\ activeVoices' = activeVoices
  /\ activeKeys' = activeKeys
  /\ glowCounts' = glowCounts

C2_StartRegisteredIsNoOp ==
  [][ /\ \A p \in PointerIds, s \in PointerSteps :
           ((onPointerDown_tsx(p, s) \/ onPointerDown_p0(p, s))
              /\ ~sustain /\ Has(activeVoices, p)) => C2_Frame
      /\ \A k \in KeyIds :
           ((keydown_tsx(k, FALSE, FALSE) \/ keydown_p0(k, FALSE))
              /\ ~sustain /\ Has(activeKeys, k)) => C2_Frame ]_vars

\* C3: immediately after allOff the pointer, key and latch registries are
\* empty and every Voice ever constructed has had stop invoked on it.
C3_AllOffSilencesAll ==
  [][ AllOffClick =>
        /\ DOMAIN activeVoices' = {}
        /\ DOMAIN activeKeys' = {}
        /\ DOMAIN latchedVoices' = {}
        /\ \A v \in DOMAIN voices' : voices'[v].oscStops > 0 ]_vars

\* C4: stop(source) for a source with no registered voice is a no-op; a second
\* stop right after a first leaves registry maps, liveness counts and fade
\* records as the first left them.
C4_Frame ==
  UNCHANGED <<voices, activePointers, activeVoices, activeKeys, latchedVoices,
              glowCounts, fadeInfo, fadeTimers>>

C4_StopUnregisteredIsNoOp ==
  [][ /\ \A p \in PointerIds :
           (~Has(activeVoices, p) /\ (onPointerUp_tsx(p) \/ onPointerUp_p0(p))) => C4_Frame
      /\ \A k \in KeyIds :
           (~Has(activeKeys, k) /\ (keyup_tsx(k, FALSE) \/ keyup_p0(k))) => C4_Frame ]_vars

\* a first stop has acted: the source's Voice is in its release tail and the
\* source has no registry entry, so a second stop finds nothing
C4_Witness ==
  \E p \in PointerIds, v \in DOMAIN voices :
    /\ voices[v].owner = PointerSrc(p)
    /\ Releasing(v)
    /\ ~Has(activeVoices, p)

\* C5: a retune of a registered pointer constructs no Voice and stops none; the
\* same Voice stays registered and only its frequency and the recorded step
\* change.
IsRetune(p, s) ==
  \/ impl = "tsx" /\ retuneForPointer_tsx(p, s)
  \/ impl = "p0" /\ retuneForPointer_p0(p, s)

C5_RetuneKeepsVoice ==
  [][ \A p \in PointerIds, s \in PointerSteps :
        (Has(activeVoices, p) /\ IsRetune(p, s)) =>
          LET v == activeVoices[p].voice
          IN /\ Len(voices') = Len(voices)
             /\ Has(activeVoices', p)
             /\ activeVoices'[p] = [voice |-> v, step |-> s]
             /\ \A q \in DOMAIN activeVoices \ {p} :
                  Has(activeVoices', q) /\ activeVoices'[q] = activeVoices[q]
             /\ activeKeys' = activeKeys
             /\ latchedVoices' = latchedVoices
             /\ voices'[v] = [voices[v] EXCEPT !.frequency = freqForStepFromBase(s, baseFreq)]
             /\ \A w \in DOMAIN voices \ {v} : voices'[w] = voices[w] ]_vars

\* a retune has acted: the p0 pointer map still holds the step of the down
\* event while the registry entry of the only Voice holds another step
C5_Witness ==
  /\ impl = "p0"
  /\ Len(voices) = 1
  /\ \E p \in DOMAIN activeVoices :
       /\ activeVoices[p].voice = 1
       /\ activePointers[p] # activeVoices[p].step
       /\ voices[1].frequency = freqForStepFromBase(activeVoices[p].step, baseFreq)
       /\ Unstopped(1)

\* C6: a retune from oldStep to newStep takes one from oldStep's liveness count
\* and adds one to newStep's, so the sum of all counts is unchanged (and a
\* retune to the same step changes no count).
C6_RetuneMovesCount ==
  [][ \A p \in PointerIds, s \in PointerSteps :
        (Has(activeVoices, p) /\ IsRetune(p, s)) =>
          LET old == activeVoices[p].step
          IN /\ SumCounts(glowCounts', Steps) = SumCounts(glowCounts, Steps)
             /\ old # s => /\ Count(glowCounts', old) = Count(glowCounts, old) - 1
                           /\ Count(glowCounts', s) = Count(glowCounts, s) + 1
             /\ old = s => glowCounts' = glowCounts ]_vars

\* C7: the liveness count of every step is never negative.
C7_CountNonNegative ==
  \A s \in DOMAIN glowCounts \cup Steps : Count(glowCounts, s) >= 0

\* a settle callback has taken the last count away
C7_Witness ==
  /\ \E v \in DOMAIN voices : voices[v].ended
  /\ glowCounts = EmptyMap

StartsOn(s) ==
  /\ Len(voices') = Len(voices) + 1
  /\ voices'[Len(voices')].frequency = freqForStepFromBase(s, baseFreq)

C9_StartCancelsFade ==
  [][ \A s \in Steps :
        (StartsOn(s) /\ Has(fadeInfo, s)) =>
          (Count(glowCounts', s) > 0 /\ ~Has(fadeInfo', s)) ]_vars

\* C10: with two sources on one step, after one of them is stopped and has
\* settled the step is alive with count 1 and no fade record; when the
\* remaining source is then stopped the step gets a fade record.
RegisteredOn(s) ==
  {<<"pointer", p>> : p \in {q \in DOMAIN activeVoices : activeVoices[q].step = s}}
    \cup {<<"key", k>> : k \in {j \in DOMAIN activeKeys : activeKeys[j].step = s}}
    \cup {<<"latch", t>> : t \in DOMAIN latchedVoices \cap {s}}

C10_UnisonLiveness ==
  [][ /\ \A v \in DOMAIN voices, s \in Steps :
           (onended(v) /\ voices[v].onended = s /\ Count(glowCounts, s) = 2
              /\ Cardinality(RegisteredOn(s)) = 1) =>
             (Count(glowCounts', s) = 1 /\ ~Has(fadeInfo', s))
      /\ \A p \in DOMAIN activeVoices :
           (stopForPointer(p) /\ Count(glowCounts, activeVoices[p].step) = 1) =>
             Has(fadeInfo', activeVoices[p].step)
      /\ \A k \in DOMAIN activeKeys :
           (stopForKey(k) /\ Count(glowCounts, activeKeys[k].step) = 1) =>
             Has(fadeInfo', activeKeys[k].step) ]_vars

\* a latch activation of step s: a down event of a pointer on the key of s, or
\* a first (non-repeat) keydown of a key that resolves to s, with sustain on
LatchActivate(s) ==
  /\ sustain
  /\ \/ \E p \in PointerIds : onPointerDown_tsx(p, s) \/ onPointerDown_p0(p, s)
     \/ \E k \in KeyIds :
          \/ resolveStepForKey(k, cesniSteps) = s /\ keydown_tsx(k, FALSE, FALSE)
          \/ ResolveKey_p0(k) = s /\ keydown_p0(k, FALSE)

UnstoppedLatched(s) ==
  {v \in DOMAIN voices : voices[v].owner = LatchSrc(s) /\ Unstopped(v)}

\* C11: with sustain on, latch activations of one step alternate start, stop,
\* start: an activation with no latched Voice on the step constructs exactly
\* one Voice and latches it, the next one stops that Voice and constructs
\* none, and a step never has two unstopped latched Voices.
C11_LatchAlternates ==
  /\ [](\A s \in Steps : Cardinality(UnstoppedLatched(s)) <= 1)
  /\ [][ \A s \in Steps :
           LatchActivate(s) =>
             IF Has(latchedVoices, s)
             THEN LET v == latchedVoices[s]
                  IN /\ Len(voices') = Len(voices)
                     /\ voices'[v].oscStops = voices[v].oscStops + 1
                     /\ \A w \in DOMAIN voices \ {v} : voices'[w] = voices[w]
                     /\ ~Has(latchedVoices', s)
             ELSE /\ Len(voices') = Len(voices) + 1
                  /\ \A w \in DOMAIN voices : voices'[w] = voices[w]
                  /\ latchedVoices'[s] = Len(voices')
                  /\ voices'[Len(voices')].oscStops = 0 ]_vars

\* start, stop, start on one step: the first latched Voice is in its release
\* tail and a second one is latched and sounding
C11_Witness ==
  \E s \in Steps, v, w \in DOMAIN voices :
    /\ voices[v].owner = LatchSrc(s) /\ Releasing(v)
    /\ Has(latchedVoices, s) /\ latchedVoices[s] = w /\ Unstopped(w)

\* the registered Voices of every source kind, each with its current step
Registered ==
  {[voice |-> activeVoices[p].voice, step |-> activeVoices[p].step] : p \in DOMAIN activeVoices}
    \cup {[voice |-> activeKeys[k].voice, step |-> activeKeys[k].step] : k \in DOMAIN activeKeys}
    \cup {[voice |-> latchedVoices[t], step |-> t] : t \in DOMAIN latchedVoices}

NoneConstructedOrStopped ==
  /\ Len(voices') = Len(voices)
  /\ \A v \in DOMAIN voices :
       /\ voices'[v].oscStops = voices[v].oscStops
       /\ voices'[v].ended = voices[v].ended

\* C12: when the transposition changes, every registered Voice of every
\* source kind (pointer-held, key-held, latched) is retuned in place to the
\* frequency of its current step on the new base, and no Voice is
\* constructed or stopped.
C12_TransposeRetunesAll ==
  [][ \A t \in Transposes :
        SetTranspose12(t) =>
          /\ NoneConstructedOrStopped
          /\ \A e \in Registered :
               voices'[e.voice].frequency =
                 freqForStepFromBase(e.step, baseFreqFromSemitones(t)) ]_vars

\* C13: a gain change or a waveform change is applied to every registered
\* Voice of every source kind (pointer-held, key-held, latched), and no Voice
\* is constructed or stopped.
C13_ToneBroadcast ==
  [][ /\ \A g \in Gains :
           SetGain(g) =>
             /\ NoneConstructedOrStopped
             /\ \A e \in Registered : voices'[e.voice].gainTarget = g
      /\ \A w \in Waveforms :
           SetWaveform(w) =>
             /\ NoneConstructedOrStopped
             /\ \A e \in Registered : voices'[e.voice].type = w ]_vars

StartPointer(p, st) == ~sustain /\ (onPointerDown_tsx(p, st) \/ onPointerDown_p0(p, st))
StartKey(k) == ~sustain /\ (keydown_tsx(k, FALSE, FALSE) \/ keydown_p0(k, FALSE))
StopPointer(p) == onPointerUp_tsx(p) \/ (~sustain /\ onPointerUp_p0(p))
StopKey(k) == ~sustain /\ (keyup_tsx(k, FALSE) \/ keyup_p0(k))

\* C14: a stop removes the source's registry entry at once; a start of the
\* same source before the old Voice has settled constructs and registers a
\* new Voice; the old Voice's settle callback stops no Voice and changes no
\* registry.
C14_RestartBeforeSettle ==
  [][ /\ \A p \in DOMAIN activeVoices : StopPointer(p) => ~Has(activeVoices', p)
      /\ \A k \in DOMAIN activeKeys : StopKey(k) => ~Has(activeKeys', k)
      /\ \A p \in PointerIds, st \in PointerSteps :
           (~Has(activeVoices, p) /\ StartPointer(p, st)) =>
             /\ Len(voices') = Len(voices) + 1
             /\ Has(activeVoices', p)
             /\ activeVoices'[p] = [voice |-> Len(voices'), step |-> st]
             /\ voices'[Len(voices')].oscStops = 0
      /\ \A k \in KeyIds :
           (~Has(activeKeys, k) /\ StartKey(k)) =>
             /\ Len(voices') = Len(voices) + 1
             /\ Has(activeKeys', k)
             /\ activeKeys'[k].voice = Len(voices')
             /\ voices'[Len(voices')].oscStops = 0
      /\ \A v \in DOMAIN voices :
           onended(v) =>
             /\ UNCHANGED <<activePointers, activeVoices, activeKeys, latchedVoices>>
             /\ Len(voices') = Len(voices)
             /\ \A w \in DOMAIN voices \ {v} : voices'[w] = voices[w] ]_vars

\* a source was stopped and started again while its old Voice is still in
\* its release tail
C14_Witness ==
  \E p \in DOMAIN activeVoices, v \in DOMAIN voices :
    /\ voices[v].owner = PointerSrc(p) /\ Releasing(v)
    /\ activeVoices[p].voice # v
    /\ voices[activeVoices[p].voice].owner = PointerSrc(p)
    /\ Unstopped(activeVoices[p].voice)

\* C15: a settle callback that fires after allOff has cleared the registries
\* leaves the registries unchanged, leaves no liveness count negative, and
\* does not take away the count of a Voice started after the allOff: every
\* step with a registered Voice still has count >= 1.
C15_StaleSettleHarmless ==
  [][ \A v \in DOMAIN voices :
        onended(v) =>
          /\ UNCHANGED <<activePointers, activeVoices, activeKeys, latchedVoices>>
          /\ \A s \in DOMAIN glowCounts' \cup Steps : Count(glowCounts', s) >= 0
          /\ \A e \in Registered : Count(glowCounts', e.step) >= 1 ]_vars

\* allOff stopped a Voice on a step, a Voice was started on that step
\* afterwards, and the stale callback has fired: the step still counts the
\* new Voice
C15_Witness ==
  \E v \in DOMAIN voices, e \in Registered :
    /\ voices[v].ended
    /\ e.voice > v
    /\ Unstopped(e.voice)
    /\ Count(glowCounts, e.step) = 1
    /\ \A w \in DOMAIN voices : ~Releasing(w)

\* a release (pointer up) or cancel event of pointer p; both run the same
\* handler code
PointerRelease(p) == onPointerUp_tsx(p) \/ onPointerUp_p0(p)

\* after the step pointer p is Idle and the Voice it had registered is stopped
ReturnsToIdle(p) ==
  /\ ~Has(activeVoices', p)
  /\ p \notin (IF impl = "tsx" THEN activePointers' ELSE DOMAIN activePointers')
  /\ voices'[activeVoices[p].voice].oscStops > 0

\* C16: for a pointer that has a registered Voice, a release or cancel event
\* stops that Voice and returns the pointer to Idle: in no state can the
\* handler of such an event end otherwise.
C16_ReleaseReturnsToIdle ==
  \A p \in DOMAIN activeVoices :
    /\ ENABLED PointerRelease(p)
    /\ ~ENABLED (PointerRelease(p) /\ ~ReturnsToIdle(p))

\* an up-signal of key k that reaches the key machine (focus is in no text
\* entry and no select is open)
KeyUpSignal(k) == keyup_tsx(k, FALSE) \/ keyup_p0(k)

\* after the step key k is Up and the Voice it had registered is stopped
ReturnsToUp(k) ==
  /\ ~Has(activeKeys', k)
  /\ voices'[activeKeys[k].voice].oscStops > 0

\* C17: an up-signal for a key that is Down (has a registered Voice) stops
\* that Voice and returns the key to Up; an up-signal for a key that is Up
\* changes no registry entry, liveness count or fade record.
C17_KeyUp ==
  /\ [](\A k \in DOMAIN activeKeys :
          /\ ENABLED KeyUpSignal(k)
          /\ ~ENABLED (KeyUpSignal(k) /\ ~ReturnsToUp(k)))
  /\ [][ \A k \in KeyIds :
           (~Has(activeKeys, k) /\ KeyUpSignal(k)) => C4_Frame ]_vars

\* a down-signal of key k (first press or OS key-repeat) in hold-to-sound mode
KeyDownSignal(k) ==
  /\ ~sustain
  /\ \E repeat \in BOOLEAN : keydown_tsx(k, repeat, FALSE) \/ keydown_p0(k, repeat)

\* C18: a down-signal for a key that is already Down constructs no Voice,
\* does not replace the key's registered Voice and changes no liveness count.
C18_KeyDownWhileDown ==
  [][ \A k \in DOMAIN activeKeys :
        KeyDownSignal(k) =>
          /\ Len(voices') = Len(voices)
          /\ Has(activeKeys', k) /\ activeKeys'[k] = activeKeys[k]
          /\ glowCounts' = glowCounts ]_vars

\* a move of pointer p onto the key of step st
PointerEnterEvent(p, st) ==
  onPointerEnter_tsx(p, st) \/ \E primary \in BOOLEAN : onPointerEnter_p0(p, st, primary)

\* C19: a pointer enter event for a pointer that has no registered Voice is
\* ignored: no Voice is constructed and no registry entry, liveness count,
\* fade record or active summary changes.
C19_EnterUnregisteredIgnored ==
  [][ \A p \in PointerIds, st \in PointerSteps :
        (~Has(activeVoices, p) /\ PointerEnterEvent(p, st)) => UNCHANGED engine ]_vars

\* pointer p is past its up event (its Voice is fading out and the step has
\* its fade record): a late move of p finds no registered Voice
C19_Witness ==
  \E p \in PointerIds, v \in DOMAIN voices :
    /\ voices[v].owner = PointerSrc(p) /\ Releasing(v)
    /\ ~Has(activeVoices, p)
    /\ p \notin (IF impl = "tsx" THEN activePointers ELSE DOMAIN activePointers)
    /\ Has(fadeInfo, voices[v].onended)

\* C20: switching sustain starts, stops, retunes or re-registers no Voice and
\* changes no liveness count; a hold-to-sound Voice started before the switch
\* (one that is registered for a pointer or key while sustain is on) is still
\* stopped by the release of its own source.
C20_SustainSwitch ==
  /\ [][ SetSustain => UNCHANGED engine ]_vars
  /\ [](sustain =>
          /\ \A p \in DOMAIN activeVoices :
               ~ENABLED (PointerRelease(p) /\ ~ReturnsToIdle(p))
          /\ \A k \in DOMAIN activeKeys :
               ~ENABLED (KeyUpSignal(k) /\ ~ReturnsToUp(k)))

\* C21: while sustain is on, a pointer up/cancel or a key up stops and
\* unregisters no latched Voice; a latched Voice leaves the registry only by
\* the next activation of its step or by allOff.
C21_LatchIgnoresUp ==
  [][ /\ \A p \in PointerIds :
           (sustain /\ PointerRelease(p)) =>
             /\ latchedVoices' = latchedVoices
             /\ \A t \in DOMAIN latchedVoices :
                  voices'[latchedVoices[t]] = voices[latchedVoices[t]]
      /\ \A k \in KeyIds :
           (sustain /\ KeyUpSignal(k)) =>
             /\ latchedVoices' = latchedVoices
             /\ \A t \in DOMAIN latchedVoices :
                  voices'[latchedVoices[t]] = voices[latchedVoices[t]]
      /\ \A t \in DOMAIN latchedVoices :
           (~Has(latchedVoices', t) \/ latchedVoices'[t] # latchedVoices[t]) =>
             (LatchActivate(t) \/ AllOffClick) ]_vars

\* sustain is on, a Voice is latched, and a pointer that went down after the
\* latch was made has been released: the latched Voice is still sounding
C21_Witness ==
  /\ sustain
  /\ \E t \in DOMAIN latchedVoices, v \in DOMAIN voices, p \in PointerIds :
       /\ Unstopped(latchedVoices[t])
       /\ v > latchedVoices[t]
       /\ voices[v].owner = PointerSrc(p) /\ Releasing(v)
       /\ ~Has(activeVoices, p)

\* the Voice a source has registered
VoiceOf(src) ==
  IF src[1] = "pointer" THEN activeVoices[src[2]].voice
  ELSE IF src[1] = "key" THEN activeKeys[src[2]].voice
  ELSE latchedVoices[src[2]]

\* a start of source src on step s, and a stop of source src
StartBy(src, s) ==
  IF src[1] = "pointer" THEN StartPointer(src[2], s)
  ELSE IF src[1] = "key" THEN StartKey(src[2]) /\ resolveStepForKey(src[2], cesniSteps) = s
  ELSE src[2] = s /\ ~Has(latchedVoices, s) /\ LatchActivate(s)
StopBy(src) ==
  IF src[1] = "pointer" THEN StopPointer(src[2])
  ELSE IF src[1] = "key" THEN StopKey(src[2])
  ELSE Has(latchedVoices, src[2]) /\ LatchActivate(src[2])

Sources ==
  {<<"pointer", p>> : p \in PointerIds} \cup {<<"key", k>> : k \in KeyIds}
    \cup {<<"latch", t>> : t \in Steps}

\* every Voice that has not ended is registered and not stopped
AllSoundingRegistered ==
  \A v \in DOMAIN voices :
    ~voices[v].ended => (Unstopped(v) /\ \E r \in Registered : r.voice = v)

\* C22: two different sources on the same step each construct a Voice of
\* their own and each add one to the step's count; with two such sources the
\* count is 2, and stopping one of them leaves the other one sounding.
C22_Unison ==
  /\ [][ \A s \in Steps : \A a \in Sources : \A b \in RegisteredOn(s) \ {a} :
           /\ (a \notin RegisteredOn(s) /\ StartBy(a, s)) =>
                /\ a \in RegisteredOn(s)' /\ b \in RegisteredOn(s)'
                /\ VoiceOf(a)' = Len(voices) + 1 /\ VoiceOf(b)' = VoiceOf(b)
                /\ voices'[VoiceOf(b)] = voices[VoiceOf(b)]
                /\ Count(glowCounts', s) = Count(glowCounts, s) + 1
           /\ (a \in RegisteredOn(s) /\ StopBy(a)) =>
                /\ b \in RegisteredOn(s)'
                /\ VoiceOf(b)' = VoiceOf(b)
                /\ voices'[VoiceOf(b)] = voices[VoiceOf(b)] ]_vars
  /\ [](\A s \in Steps :
          (Cardinality(RegisteredOn(s)) = 2 /\ AllSoundingRegistered) =>
            Count(glowCounts, s) = 2)

\* C23: Voice.stop is idempotent: a second call of stop on a Voice is a
\* no-op; the oscillator's terminal stop is issued at most once, the release
\* curve is applied once (in both revisions it is applied in the same call
\* that issues the terminal stop), and the callback is installed once.
C23_StopIdempotent ==
  /\ [](\A v \in DOMAIN voices : voices[v].oscStops <= 1)
  /\ [][ \A v \in DOMAIN voices, cb \in Steps :
           (voices[v].oscStops >= 1 /\ Voice_stop_call(v, cb)) =>
             voices'[v] = voices[v] ]_vars

C25_OneFadeTimer ==
  /\ [](\A s \in Steps : Get(fadeTimers, s, 0) <= 1)
  /\ [][ \A s \in Steps :
           (Has(fadeInfo, s) /\ ~Has(fadeInfo', s)) => Get(fadeTimers', s, 0) = 0 ]_vars

\* C26: when the only source registered on a step is stopped, the step's fade
\* record exists right after the stop call and the stop call leaves the
\* step's count as it was; the count goes down only when the stopped Voice's
\* settle callback runs.
C26_FadeAtStopCountAtSettle ==
  [][ /\ \A s \in Steps : \A a \in Sources :
           (RegisteredOn(s) = {a} /\ StopBy(a)) =>
             /\ Has(fadeInfo', s)
             /\ Count(glowCounts', s) = Count(glowCounts, s)
      /\ \A v \in DOMAIN voices :
           (onended(v) /\ voices[v].onended # NoStep) =>
             Count(glowCounts', voices[v].onended)
               = Max(0, Count(glowCounts, voices[v].onended) - 1) ]_vars

\* C27: every fade record is eventually removed, given that the settle
\* callbacks of stopped Voices and the removal timers eventually fire.
C27_FadeEventuallyRemoved ==
  \A s \in Steps : Has(fadeInfo, s) ~> ~Has(fadeInfo, s)

\* a Voice was stopped and has settled, the step it faded on has lost its
\* fade record and no removal is pending
C27_Witness ==
  /\ \E v \in DOMAIN voices : voices[v].ended
  /\ DOMAIN fadeInfo = {}
  /\ DOMAIN fadeTimers = {}
  /\ \A v \in DOMAIN voices : voices[v].oscStops > 0

\* C28: for every integer semitone offset d the note-name function returns
\* the name of index (62 + d) mod 12, with the mathematical (non-negative)
\* modulo, and the octave floor((62 + d) / 12) - 1.
C28_NoteName ==
  (probe.fn = "midiNameFromSemis" /\ probe.done) =>
    probe.out = [name |-> NOTE_NAMES[((62 + probe.d) % 12) + 1],
                 octave |-> ((62 + probe.d) \div 12) - 1]

NonIncreasing(curve) ==
  \A j \in 1..(Len(curve) - 1) : curve[j] >= curve[j + 1]

\* C29 as stated: buildDecayCurve(start, floor, resolutionPoints) returns a
\* non-increasing sequence of length resolutionPoints that begins at
\* max(start, floor) and ends at floor, with no element zero or negative.
C29_DecayCurveAsStated ==
  (probe.fn = "buildSmoothDecayCurve" /\ probe.done) =>
    /\ Len(probe.out) = probe.points
    /\ NonIncreasing(probe.out)
    /\ probe.out[1] = Max(probe.start, probe.end)
    /\ probe.out[Len(probe.out)] = probe.end
    /\ \A j \in 1..Len(probe.out) : probe.out[j] > 0

\* C29 amended: the function returns a non-increasing sequence of length
\* max(2, resolutionPoints) that begins at max(start, f) and ends at f, where
\* f = max(floor, 1e-6); for start <= 0 it begins at f; no element is zero or
\* negative.
C29_DecayCurve ==
  (probe.fn = "buildSmoothDecayCurve" /\ probe.done) =>
    LET f == Max(probe.end, 1)
    IN /\ Len(probe.out) = Max(2, probe.points)
       /\ NonIncreasing(probe.out)
       /\ probe.out[1] = Max(probe.start, f)
       /\ probe.out[Len(probe.out)] = f
       /\ (probe.start <= 0 => probe.out[1] = f)
       /\ \A j \in 1..Len(probe.out) : probe.out[j] > 0

\* a curve was built from a start that is not positive, and one from a start
\* above the floor with more than two points, which really decays
C29_Witness ==
  /\ probe.fn = "buildSmoothDecayCurve" /\ probe.done
  /\ \/ probe.start <= 0
     \/ /\ probe.points > 2
        /\ probe.out[1] > probe.out[2]
        /\ probe.out[2] > probe.out[Len(probe.out)]

C31_FadeDurationFloor ==
  (probe.fn = "visualReleaseMs" /\ probe.done) =>
    /\ probe.out >= 90
    /\ (probe.rel <= probe.rel2 => probe.out <= probe.out2)

\* the duration was computed for a release below the minimum release and for
\* a longer one that gives a longer fade
C31_Witness ==
  /\ probe.fn = "visualReleaseMs" /\ probe.done
  /\ probe.rel < MIN_REL
  /\ probe.out = 90
  /\ probe.rel2 > probe.rel
  /\ probe.out2 > probe.out

\* the step a Voice is on: the step of its registry entry, for a stopped
\* Voice the step its settle callback was made for, and for a Voice that lost
\* its entry without being stopped the step its frequency was last set for
StepOfVoice(v) ==
  IF \E r \in Registered : r.voice = v
  THEN (CHOOSE r \in Registered : r.voice = v).step
  ELSE IF voices[v].oscStops > 0 THEN voices[v].onended
  ELSE (voices[v].frequency - baseFreq) \div 12

Unsettled(s) == {v \in DOMAIN voices : ~voices[v].ended /\ StepOfVoice(v) = s}

\* C32: in every reachable state the stored liveness count of every step s
\* equals the number of Voices constructed and not yet settled (registered or
\* in their release tail) whose current step is s.
C32_CountIsUnsettledVoices ==
  \A s \in Steps : Count(glowCounts, s) = Cardinality(Unsettled(s))

\* key render: opacity = !fade && isAlive ? 1 : 0, with isAlive = count > 0
Opacity(s) == IF ~Has(fadeInfo, s) /\ Count(glowCounts, s) > 0 THEN 1 ELSE 0

\* C33: in every reachable state every step on which a registered, not yet
\* stopped Voice is sounding is displayed as alive: its count is greater than
\* 0 and it has no fade record, so its glow has opacity 1.
C33_SoundingStepIsLit ==
  \A s \in Steps :
    (\E r \in Registered : r.step = s /\ Unstopped(r.voice)) =>
      /\ Count(glowCounts, s) > 0
      /\ ~Has(fadeInfo, s)
      /\ Opacity(s) = 1

\* nothing is held or latched, and no settle callback or removal timer is pending
Quiescent ==
  /\ Registered = {}
  /\ \A v \in DOMAIN voices : ~Releasing(v)
  /\ DOMAIN fadeTimers = {}

\* C34: once every pointer and key has been released and every latch toggled
\* off (or allOff has run), and every pending settle callback and fade timer
\* has fired, every liveness count is zero and no fade record remains.
C34_Quiescence ==
  Quiescent => (DOMAIN glowCounts = {} /\ DOMAIN fadeInfo = {})

IsRegistered(a) ==
  IF a[1] = "pointer" THEN Has(activeVoices, a[2])
  ELSE IF a[1] = "key" THEN Has(activeKeys, a[2])
  ELSE Has(latchedVoices, a[2])

\* an input event of the source a: of the pointer or the key itself, or an
\* activation of the latched step
EventOf(a) ==
  IF a[1] = "pointer"
  THEN \/ PointerRelease(a[2])
       \/ \E st \in PointerSteps :
            \/ onPointerDown_tsx(a[2], st) \/ onPointerDown_p0(a[2], st)
            \/ onPointerEnter_tsx(a[2], st)
            \/ \E b \in BOOLEAN : onPointerEnter_p0(a[2], st, b)
  ELSE IF a[1] = "key"
  THEN \/ KeyUpSignal(a[2])
       \/ \E rp \in BOOLEAN :
            keydown_tsx(a[2], rp, FALSE) \/ keydown_p0(a[2], rp)
  ELSE LatchActivate(a[2])

\* C35: an event of one input source never stops, retunes or replaces a Voice
\* registered to a different source: the entry and the Voice of a registered
\* source change only in an event of that source or in allOff.
C35_NoPrematureCutoff ==
  [][ \A a \in Sources :
        (IsRegistered(a)
           /\ (~IsRegistered(a)' \/ VoiceOf(a)' # VoiceOf(a)
                 \/ voices'[VoiceOf(a)] # voices[VoiceOf(a)])) =>
          (EventOf(a) \/ AllOffClick) ]_vars

\* one pointer's Voice has been stopped and is releasing while another
\* source still holds an unstopped Voice
C35_Witness ==
  \E v \in DOMAIN voices, a \in Sources :
    /\ voices[v].owner.kind = "pointer" /\ Releasing(v)
    /\ IsRegistered(a) /\ VoiceOf(a) # v /\ Unstopped(VoiceOf(a))
    /\ a # <<"pointer", voices[v].owner.p>>

\* C36: changing the scale selection while a key is held does not keep the
\* key's release from stopping its Voice: in hold-to-sound mode the up-signal
\* of a key that is Down stops its registered Voice and unregisters it, even
\* if the key resolves to no step or to another step in the scale selected
\* at release time.
C36_ReleaseAfterScaleChange ==
  \A k \in DOMAIN activeKeys :
    ~sustain =>
      /\ ENABLED KeyUpSignal(k)
      /\ ~ENABLED (KeyUpSignal(k) /\ ~ReturnsToUp(k))

\* C37: Voice.stop decays from the amplitude the Voice has: the first value of
\* the release curve that a stop applies is the value gain.gain had when stop
\* was called, after a setGain and in the middle of the attack alike, never
\* the target of a ramp that has not arrived yet.
C37_StopDecaysFromCurrent ==
  [][\A v \in DOMAIN voices :
       (voices[v].oscStops = 0 /\ voices'[v].oscStops = 1)
         => voices'[v].curveStart = Amplitude(voices[v])]_vars

\* C38: every Voice is owned by one registry slot: no two entries of the
\* pointer, key and latch registries, within one registry or across them,
\* refer to the same Voice.
C38_ExclusiveOwnership ==
  \A a \in Sources : \A b \in Sources \ {a} :
    (IsRegistered(a) /\ IsRegistered(b)) => VoiceOf(a) # VoiceOf(b)

\* a pointer and a key hold Voices on the same step at the same time
C38_Witness ==
  \E p \in DOMAIN activeVoices : \E k \in DOMAIN activeKeys :
    /\ activeVoices[p].step = activeKeys[k].step
    /\ activeVoices[p].voice # activeKeys[k].voice

\* the step and frequency read-out is empty
SummaryEmpty == activeStep = NoStep /\ activeHz = NoHz

\* a step that starts a Voice, and a step that moves pointer p's Voice to
\* another step
StartsVoice == Len(voices') = Len(voices) + 1
NewestStep == StepOfVoice(Len(voices))
Retunes(p) ==
  /\ Has(activeVoices, p) /\ Has(activeVoices', p)
  /\ activeVoices'[p].voice = activeVoices[p].voice
  /\ activeVoices'[p].step # activeVoices[p].step

C39_AfterStart ==
  [][StartsVoice =>
       /\ activeStep' = NewestStep'
       /\ activeHz' = freqForStepFromBase(activeStep', baseFreq')]_vars
C39_AfterRetune ==
  [][\A p \in PointerIds :
       Retunes(p) =>
         /\ activeStep' = activeVoices'[p].step
         /\ activeHz' = freqForStepFromBase(activeStep', baseFreq')]_vars
C39_AfterBaseChange ==
  [][\A t \in Transposes :
       (SetTranspose12(t) /\ ~SummaryEmpty) =>
         /\ activeStep' = activeStep
         /\ activeHz' = freqForStepFromBase(activeStep, baseFreq')]_vars
C39_AfterAllOff == [][AllOffClick => SummaryEmpty']_vars

\* C39: the read-out of the active step and pitch names the step touched
\* last and its frequency on the current base: after a start or a retune it
\* is that Voice's step with the step's frequency, a change of the base
\* frequency keeps the step and shows its frequency on the new base, and
\* after All Off it is empty.
C39_SummaryNamesLastTouched ==
  C39_AfterStart /\ C39_AfterRetune /\ C39_AfterBaseChange /\ C39_AfterAllOff

\* the key k is the i-th key of the order, whatever its case
IsKeyAt(k, order, i) ==
  i \in 1..Len(order) /\ toLowerCase(k) = toLowerCase(order[i])

\* C40: a key at position i of the order, in either case, resolves to the
\* i-th step of the scale when the scale has an i-th step and to no step
\* otherwise (the fifth key on a four-step tetrachord); a key that is not in
\* the order resolves to no step.
C40_KeyResolution ==
  (probe.fn = "resolveStepForKey" /\ probe.done) =>
    /\ \A i \in 1..Len(probe.order) :
         IsKeyAt(probe.key, probe.order, i) =>
           probe.out = IF i <= Len(probe.steps) THEN probe.steps[i] ELSE NoStep
    /\ (\A i \in 1..Len(probe.order) : ~IsKeyAt(probe.key, probe.order, i)) =>
         probe.out = NoStep

\* upper-case G, the fifth key, has been resolved on a four-step tetrachord
C40_Witness ==
  /\ probe.fn = "resolveStepForKey" /\ probe.done
  /\ probe.key = "G" /\ IsKeyAt(probe.key, probe.order, 5)
  /\ Len(probe.steps) = 4
  /\ probe.out = NoStep

====
